---- MODULE Spec2Model ----
(***************************************************************************)
(* Photo-disintegration module of mpc (src/module/PhotoDisintegration.cpp): *)
(* the rate table built by init, the Monte Carlo selection of the next      *)
(* interaction (setNextInteraction), its execution (performInteraction)     *)
(* and the deterministic energy loss length (energyLossLength).             *)
(*                                                                          *)
(* Doubles are modelled exactly: a double is a record [k, n, d] that is a   *)
(* non-negative rational n/d (k = "fin"), the rational multiple n/d <= 1 of *)
(* the largest finite double (k = "max"), +infinity (k = "inf") or a NaN    *)
(* (k = "nan").  Lengths are measured in Mpc, so that the stored rate       *)
(* r / Mpc [1/m] of a file value r [1/Mpc] is the numeral r.                *)
(***************************************************************************)
EXTENDS Integers, Sequences, FiniteSets, TLC

\* ------------------------------------------------------------------ bounds
MaxLines == 2        \* record lines of a data source
MaxDigit == 1        \* largest digit of the channel codes of the decoding runs
MaxK == 1            \* random draws are u = exp(-k), k \in 0..MaxK
MaxSecondaries == 1  \* performInteraction is not called with more secondaries

\* --------------------------------------------------------- program constants
NZ == 31             \* pdTable.resize(31 * 57), and the stride of Z * 31 + N
NN == 57
NSamples == 200      \* rate values of one record
lgMin == 6           \* tabulated range of log10(Lorentz factor)
lgMax == 14

\* ------------------------------------------------------------------ doubles
RECURSIVE GCD(_, _)
GCD(a, b) == IF b = 0 THEN a ELSE GCD(b, a % b)

Fin(n, d) == IF n = 0 THEN [k |-> "fin", n |-> 0, d |-> 1]
             ELSE [k |-> "fin", n |-> n \div GCD(n, d), d |-> d \div GCD(n, d)]
Inf == [k |-> "inf", n |-> 1, d |-> 0]
NaN == [k |-> "nan", n |-> 0, d |-> 0]
\* n/d times std::numeric_limits<double>::max(); beyond it the double overflows
MaxTimes(n, d) == IF n > d THEN Inf
                  ELSE [k |-> "max", n |-> n \div GCD(n, d), d |-> d \div GCD(n, d)]
DBL_MAX == MaxTimes(1, 1)

\* x / y for a finite y >= 0
DDiv(x, y) ==
    IF x.k = "nan" THEN NaN
    ELSE IF y.n = 0 THEN (IF x.k = "fin" /\ x.n = 0 THEN NaN ELSE Inf)
    ELSE IF x.k = "inf" THEN Inf
    ELSE IF x.k = "max" THEN MaxTimes(x.n * y.d, x.d * y.n)
    ELSE Fin(x.n * y.d, x.d * y.n)

\* x * y for a finite y > 0
DMul(x, y) ==
    IF x.k = "nan" THEN NaN
    ELSE IF x.k = "inf" THEN Inf
    ELSE IF x.k = "max" THEN MaxTimes(x.n * y.n, x.d * y.d)
    ELSE Fin(x.n * y.n, x.d * y.d)

\* x + y for finite x, y
DAdd(x, y) == Fin(x.n * y.d + y.n * x.d, x.d * y.d)

Rank(x) == CASE x.k = "fin" -> 0 [] x.k = "max" -> 1 [] x.k = "inf" -> 2 [] OTHER -> 3

\* x > y of IEEE doubles: false as soon as one side is a NaN
DGt(x, y) ==
    IF x.k = "nan" \/ y.k = "nan" THEN FALSE
    ELSE IF Rank(x) # Rank(y) THEN Rank(x) > Rank(y)
    ELSE IF x.k = "inf" THEN FALSE
    ELSE x.n * y.d > y.n * x.d

\* log10 of m * 10^e for m an exact power of ten
RECURSIVE Log10(_)
Log10(m) == IF m <= 1 THEN 0 ELSE 1 + Log10(m \div 10)

\* ------------------------------------------------------------- data source
PhotonFields == {"CMB", "IRB", "CMB_IRB"}

\* a rate curve: NSamples rate values, equidistant in lg from lgMin to lgMax
FlatCurve(v) == [i \in 1..NSamples |-> v]
RampCurve == [i \in 1..NSamples |-> i - 1]

\* a line of the data source: its first character and its numeric fields
CommentLine == [first |-> "#", fields |-> << >>]
DataLine(Z, A, channel, curve) == [first |-> "d", fields |-> <<Z, A, channel>> \o curve]

\* ---------------------------------------------------------------- variables
VARIABLES
    photonField,   \* PhotoDisintegration::photonField
    infile,        \* the lines of the data source init read
    pdTable,       \* PhotoDisintegration::pdTable
    candidates,    \* the Candidates of the host, by name
    last           \* the last call: its arguments, draws and result

vars == <<photonField, infile, pdTable, candidates, last>>

\* ------------------------------------------------------------------- loader
\* pdTable.resize(31 * 57)
EmptyTable == [i \in 0..(NZ * NN - 1) |-> << >>]

\* the index of nuclide (Z, N) in pdTable
TableIndex(Z, N) == Z * NZ + N

\* lineStream >> Z >> N >> pd.channel, then 200 times lineStream >> r
ParseLine(line) ==
    [Z |-> line.fields[1],
     N |-> line.fields[2],
     pd |-> [channel |-> line.fields[3],
             rate |-> [i \in 1..NSamples |-> line.fields[3 + i]]]]

\* one pass of the getline loop
LoadLine(table, line) ==
    IF line.first = "#" THEN table
    ELSE LET p == ParseLine(line)
         IN  [table EXCEPT ![TableIndex(p.Z, p.N)] = Append(@, p.pd)]

RECURSIVE LoadLines(_, _)
LoadLines(table, lines) ==
    IF lines = << >> THEN table
    ELSE LoadLines(LoadLine(table, Head(lines)), Tail(lines))

\* PhotoDisintegration::init(std::string filename)
init(lines) == LoadLines(EmptyTable, lines)

\* setDescription in init(PhotonField)
getDescription ==
    CASE photonField = "CMB" -> "PhotoDisintegration: CMB"
      [] photonField = "IRB" -> "PhotoDisintegration: IRB"
      [] OTHER -> "PhotoDisintegration: CMB and IRB"

\* ------------------------------------------------------------- collaborators
\* getNucleusId and its inverses: the identity of a nucleus is its (A, Z)
getNucleusId(A, Z) == [A |-> A, Z |-> Z]

\* digit(value, d): the decimal digit of value at place d
digit(value, d) == (value \div d) % 10

\* Candidate::current.getLorentzFactor times (1 + z), the nucleus of mass
\* number A weighing A mass units; E is m * 10^e mass units
LorentzFactor(id, E) == DDiv(E.m, Fin(id.A, 1))
lgOf(id, E, z) == E.e + Log10(DMul(LorentzFactor(id, E), Fin(1 + z, 1)).n)

\* interpolateEquidistant(x, lo, hi, Y) for an integer x
interpolateEquidistant(x, lo, hi, Y) ==
    IF x <= lo THEN Fin(Y[1], 1)
    ELSE IF x >= hi THEN Fin(Y[Len(Y)], 1)
    ELSE LET num == (x - lo) * (Len(Y) - 1)
             den == hi - lo
             i   == num \div den
             r   == num % den
         IN  Fin(Y[i + 1] * den + r * (Y[i + 2] - Y[i + 1]), den)

\* Candidate::setInteractionState(name, interaction)
setInteractionState(states, name, interaction) ==
    [n \in (DOMAIN states) \cup {name} |-> IF n = name THEN interaction ELSE states[n]]

\* Candidate::clearInteractionStates()
NoStates == [n \in {} |-> 0]

\* pdTable[i]: a read outside the vector is undefined and returns anything
GarbageReads == { << >>, <<[channel |-> 0, rate |-> FlatCurve(0)]>> }
ReadTable(i) == IF i \in DOMAIN pdTable THEN {pdTable[i]} ELSE GarbageReads

\* values an InteractionState may hold before it is assigned
StaleChannels == {0, 11}

\* values photonFieldScaling(photonField, z) may return
ScalingValues == {1, 2}

NoCall == [op |-> "none", who |-> "none", ret |-> FALSE, dists |-> << >>,
           channelIn |-> 0, channel |-> 0, id |-> getNucleusId(0, 0),
           E |-> [m |-> Fin(0, 1), e |-> 0], loss |-> NaN]

\* -------------------------------------------------------- setNextInteraction
\* the lower edge of the table let through
OutOfEnergyRange_EdgeIncluded(lg) == (lg < lgMin) \/ (lg >= lgMax)

\* if ((lg <= 6) or (lg >= 14)) return false
OutOfEnergyRange(lg) == (lg <= lgMin) \/ (lg >= lgMax)

\* an equal distance skipped too
SkipsChannel_OnEqual(d, best) == DGt(d, best) \/ d = best

\* if (d > interaction.distance) continue
SkipsChannel(d, best) == DGt(d, best)

\* double d = -log(random.rand()) / rate, for the draw u = exp(-k)
SampleDistance(k, lg, pd) ==
    DDiv(Fin(k, 1), interpolateEquidistant(lg, lgMin, lgMax, pd.rate))

\* the loop over pdModes from channel i on
RECURSIVE FindMinimum(_, _, _, _)
FindMinimum(pdModes, ds, i, interaction) ==
    IF i > Len(ds) THEN interaction
    ELSE IF SkipsChannel(ds[i], interaction.distance)
         THEN FindMinimum(pdModes, ds, i + 1, interaction)
         ELSE FindMinimum(pdModes, ds, i + 1,
                          [distance |-> ds[i], channel |-> pdModes[i].channel])

\* interaction.distance /= photonFieldScaling(photonField, z); *= (1 + z)
ToComoving(interaction, scaling, z) ==
    [interaction EXCEPT
        !.distance = DMul(DDiv(@, Fin(scaling, 1)), Fin(1 + z, 1))]

\* the loop stopping one channel early
LoopChannels_OneShort(pdModes) == 1..(Len(pdModes) - 1)

\* for (size_t i = 0; i < pdModes.size(); i++): the channels the loop visits
LoopChannels(pdModes) == 1..Len(pdModes)

\* return false, before any draw and any write
NoInteraction(c, channelIn) ==
    /\ last' = [NoCall EXCEPT !.op = "setNextInteraction", !.who = c,
                              !.channelIn = channelIn, !.channel = channelIn]
    /\ UNCHANGED <<photonField, infile, pdTable, candidates>>

\* bool PhotoDisintegration::setNextInteraction(candidate, interaction);
\* channelIn is what the caller's interaction.channel holds on entry, draws
\* the values k of the random draws u = exp(-k), and scalings the values of
\* photonFieldScaling
setNextInteraction(c, channelIn, draws, scalings) ==
    LET cand == candidates[c]
        A == cand.id.A
        Z == cand.id.Z
        N == A - Z
        lg == lgOf(cand.id, cand.E, cand.z)
    IN  \E pdModes \in ReadTable(TableIndex(Z, N)) :
            IF Len(pdModes) = 0 THEN NoInteraction(c, channelIn)
            ELSE IF OutOfEnergyRange(lg) THEN NoInteraction(c, channelIn)
            ELSE \E us \in [LoopChannels(pdModes) -> draws] :
                 \E scaling \in scalings :
                 LET ds == [i \in DOMAIN us |-> SampleDistance(us[i], lg, pdModes[i])]
                     found == FindMinimum(pdModes, ds, 1,
                                  [distance |-> DBL_MAX, channel |-> channelIn])
                     interaction == ToComoving(found, scaling, cand.z)
                 IN  /\ candidates' = [candidates EXCEPT ![c].states =
                            setInteractionState(@, getDescription, interaction)]
                     /\ last' = [NoCall EXCEPT !.op = "setNextInteraction", !.who = c,
                                   !.ret = TRUE, !.dists = ds,
                                   !.channelIn = channelIn,
                                   !.channel = interaction.channel]
                     /\ UNCHANGED <<photonField, infile, pdTable>>

\* -------------------------------------------------------- performInteraction
\* the digits read from the units upwards
DecodeChannel_Reversed(channel) ==
    [nNeutron |-> digit(channel, 1),
     nProton  |-> digit(channel, 10),
     nH2      |-> digit(channel, 100),
     nH3      |-> digit(channel, 1000),
     nHe3     |-> digit(channel, 10000),
     nHe4     |-> digit(channel, 100000)]

\* parse disintegration channel
DecodeChannel(channel) ==
    [nNeutron |-> digit(channel, 100000),
     nProton  |-> digit(channel, 10000),
     nH2      |-> digit(channel, 1000),
     nH3      |-> digit(channel, 100),
     nHe3     |-> digit(channel, 10),
     nHe4     |-> digit(channel, 1)]

\* a triton counted as two nucleons
DeltaA_TritonAsTwo(n) ==
    -n.nNeutron - n.nProton - 2 * n.nH2 - 2 * n.nH3 - 3 * n.nHe3 - 4 * n.nHe4

DeltaA(n) == -n.nNeutron - n.nProton - 2 * n.nH2 - 3 * n.nH3 - 3 * n.nHe3 - 4 * n.nHe4
DeltaZ(n) == -n.nProton - n.nH2 - n.nH3 - 2 * n.nHe3 - 2 * n.nHe4

Copies(n, x) == [i \in 1..n |-> x]

\* candidate->addSecondary(getNucleusId(a, z), EpA * a)
Secondary(a, z, EpA, e) == [id |-> getNucleusId(a, z), E |-> [m |-> DMul(EpA, Fin(a, 1)), e |-> e]]

\* create secondaries
CreateSecondaries(n, EpA, e) ==
    Copies(n.nNeutron, Secondary(1, 0, EpA, e)) \o
    Copies(n.nProton, Secondary(1, 1, EpA, e)) \o
    Copies(n.nH2, Secondary(2, 1, EpA, e)) \o
    Copies(n.nH3, Secondary(3, 1, EpA, e)) \o
    Copies(n.nHe3, Secondary(3, 2, EpA, e)) \o
    Copies(n.nHe4, Secondary(4, 2, EpA, e))

\* a nucleus of no nucleons kept as a particle
UpdateParticle_ZeroKept(cand, dA, dZ, EpA) ==
    LET A == cand.id.A
        Z == cand.id.Z
        nA == A + dA
    IN  IF nA >= 0
        THEN [cand EXCEPT !.id = getNucleusId(A + dA, Z + dZ),
                          !.E = [m |-> DMul(EpA, Fin(A + dA, 1)), e |-> cand.E.e]]
        ELSE [cand EXCEPT !.active = FALSE]

\* update particle
UpdateParticle(cand, dA, dZ, EpA) ==
    LET A == cand.id.A
        Z == cand.id.Z
        nA == A + dA
    IN  IF nA > 0
        THEN [cand EXCEPT !.id = getNucleusId(A + dA, Z + dZ),
                          !.E = [m |-> DMul(EpA, Fin(A + dA, 1)), e |-> cand.E.e]]
        ELSE [cand EXCEPT !.active = FALSE]

\* getInteractionState(getDescription(), interaction): the stored channel, or
\* what the local InteractionState holds when the candidate stores none
PendingChannels(cand, stale) ==
    IF getDescription \in DOMAIN cand.states
    THEN {cand.states[getDescription].channel}
    ELSE stale

\* the stored states left on the candidate
ConsumeStates_Kept(states) == states

\* candidate->clearInteractionStates()
ConsumeStates(states) == NoStates

\* void PhotoDisintegration::performInteraction(candidate); stale is what
\* the local InteractionState may hold
performInteraction(c, stale) ==
    LET cand == candidates[c]
    IN  /\ Len(cand.secondaries) <= MaxSecondaries
        /\ \E channel \in PendingChannels(cand, stale) :
            LET n == DecodeChannel(channel)
                dA == DeltaA(n)
                dZ == DeltaZ(n)
                EpA == DDiv(cand.E.m, Fin(cand.id.A, 1))
                updated == UpdateParticle(cand, dA, dZ, EpA)
            IN  /\ candidates' = [candidates EXCEPT ![c] =
                       [updated EXCEPT
                           !.states = ConsumeStates(@),
                           !.secondaries = @ \o CreateSecondaries(n, EpA, cand.E.e)]]
                /\ last' = [NoCall EXCEPT !.op = "performInteraction", !.who = c,
                                          !.channel = channel]
                /\ UNCHANGED <<photonField, infile, pdTable>>

\* ---------------------------------------------------------- energyLossLength
\* rate * relativeEnergyLoss of one channel
ChannelLossRate(pd, lg, A) ==
    LET rate == interpolateEquidistant(lg, lgMin, lgMax, pd.rate)
        channel == pd.channel
        nN == digit(channel, 100000)
        nP == digit(channel, 10000)
        nH2 == digit(channel, 1000)
        nH3 == digit(channel, 100)
        nHe3 == digit(channel, 10)
        nHe4 == digit(channel, 1)
    IN  DMul(rate, Fin(nN + nP + 2 * nH2 + 3 * nH3 + 3 * nHe3 + 4 * nHe4, A))

RECURSIVE LossRate(_, _, _, _)
LossRate(pdModes, i, lg, A) ==
    IF i > Len(pdModes) THEN Fin(0, 1)
    ELSE DAdd(ChannelLossRate(pdModes[i], lg, A), LossRate(pdModes, i + 1, lg, A))

\* the value energyLossLength returns for the channel list it read
LossLength(pdModes, lg, A) ==
    IF Len(pdModes) = 0 THEN DBL_MAX
    ELSE IF OutOfEnergyRange(lg) THEN DBL_MAX
    ELSE DDiv(Fin(1, 1), LossRate(pdModes, 1, lg, A))

\* double PhotoDisintegration::energyLossLength(int id, double E)
energyLossLength(id, E) ==
    LET A == id.A
        Z == id.Z
        N == A - Z
        lg == lgOf(id, E, 0)
    IN  \E pdModes \in ReadTable(TableIndex(Z, N)) :
            /\ last' = [NoCall EXCEPT !.op = "energyLossLength", !.id = id,
                                      !.E = E,
                                      !.loss = LossLength(pdModes, lg, A)]
            /\ UNCHANGED <<photonField, infile, pdTable, candidates>>

\* ------------------------------------------------------------ specification
\* a nucleus (A, Z) of Lorentz factor 10^e at redshift z, as the host creates it
NewCandidate(A, Z, e, z) ==
    [id |-> getNucleusId(A, Z), E |-> [m |-> Fin(A, 1), e |-> e], z |-> z,
     active |-> TRUE, states |-> NoStates, secondaries |-> << >>]

\* the data sources of at most MaxLines lines drawn from lines
RECURSIVE FilesOf(_, _)
FilesOf(lines, n) ==
    IF n = 0 THEN { << >> }
    ELSE LET shorter == FilesOf(lines, n - 1)
         IN  shorter \cup {Append(f, l) : f \in {g \in shorter : Len(g) = n - 1}, l \in lines}

\* the state after construction from a photon field whose data source is one
\* of files, with the candidates of the host drawn from fresh
InitWith(fields, files, names, fresh) ==
    /\ photonField \in fields
    /\ infile \in files
    /\ pdTable = init(infile)
    /\ candidates \in [names -> fresh]
    /\ last = NoCall

\* the calls of the host, with the inputs the module does not control drawn
\* from stale, draws and scalings
NextWith(stale, draws, scalings) ==
    \/ \E c \in DOMAIN candidates : \E channelIn \in stale :
           setNextInteraction(c, channelIn, draws, scalings)
    \/ \E c \in DOMAIN candidates : performInteraction(c, stale)
    \/ \E c \in DOMAIN candidates : energyLossLength(candidates[c].id, candidates[c].E)

\* helium-4 (second column 2): a neutron channel of rate 0 or 1 and a proton
\* channel of rate 1, asked at lg = 6, 7 and 14
SelectLines ==
    {DataLine(2, 2, 100000, FlatCurve(0)), DataLine(2, 2, 100000, FlatCurve(1)),
     DataLine(2, 2, 10000, FlatCurve(1))}

Init ==
    InitWith({"CMB"}, FilesOf(SelectLines, MaxLines), {"c1"},
             {NewCandidate(4, 2, 6, 0), NewCandidate(4, 2, 6, 9), NewCandidate(4, 2, 13, 9)})

Next == NextWith(StaleChannels, 0..MaxK, {2})

Spec == Init /\ [][Next]_vars

\* carbon-12 (second column 6) with one channel of any code of digits 0..MaxDigit
RECURSIVE ChannelCodes(_)
ChannelCodes(places) ==
    IF places = 0 THEN {0}
    ELSE {10 * c + g : c \in ChannelCodes(places - 1), g \in 0..MaxDigit}

InitExec ==
    InitWith({"IRB"}, {<<DataLine(6, 6, channel, FlatCurve(1))>> : channel \in ChannelCodes(6)},
             {"c1"}, {NewCandidate(12, 6, 13, 0)})

NextExec == NextWith(StaleChannels, {0, 1}, {1})

SpecExec == InitExec /\ [][NextExec]_vars

\* light nuclides whose table indices meet: (0, 31) and (1, 0), (0, 32) and (1, 1)
LoadLines31 ==
    {CommentLine, DataLine(0, 31, 100000, RampCurve), DataLine(1, 1, 100000, RampCurve),
     DataLine(1, 2, 10000, RampCurve)}

InitLoad ==
    InitWith(PhotonFields, FilesOf(LoadLines31, MaxLines), {"c1"},
             {NewCandidate(A, 1, 13, 0) : A \in {1, 2}})

NextLoad == NextWith({0}, {1}, ScalingValues)

SpecLoad == InitLoad /\ [][NextLoad]_vars

\* two candidates of the host on one shared table, one inside the tabulated
\* range (lg = 13) and one at its edge (lg = 14)
InitShared ==
    InitWith({"CMB_IRB"},
             FilesOf({DataLine(2, 2, 100000, FlatCurve(1)), DataLine(2, 2, 10000, FlatCurve(1))},
                     MaxLines),
             {"c1", "c2"}, {NewCandidate(4, 2, 13, z) : z \in {0, 9}})

NextShared == NextWith({0}, {0, 1}, {1})

SpecShared == InitShared /\ [][NextShared]_vars

\* ------------------------------------------------------------------ claims
Pending(cand) == getDescription \in DOMAIN cand.states
InVector(id) == TableIndex(id.Z, id.A - id.Z) \in DOMAIN pdTable
RecordsOf(id) == pdTable[TableIndex(id.Z, id.A - id.Z)]
Channels(pdModes) == {pdModes[i].channel : i \in 1..Len(pdModes)}

\* the secondaries a call added to a candidate
Added(pre, post) ==
    SubSeq(post.secondaries, Len(pre.secondaries) + 1, Len(post.secondaries))

RECURSIVE MassOf(_)
MassOf(secs) == IF secs = << >> THEN 0 ELSE Head(secs).id.A + MassOf(Tail(secs))

RECURSIVE ChargeOf(_)
ChargeOf(secs) == IF secs = << >> THEN 0 ELSE Head(secs).id.Z + ChargeOf(Tail(secs))

CountOf(secs, a, z) ==
    Cardinality({i \in 1..Len(secs) : secs[i].id = getNucleusId(a, z)})

\* C1: performInteraction conserves nucleons and charge: A + dA plus the mass
\* numbers of the secondaries it adds is A, Z + dZ plus their charge numbers
\* is Z, and a nucleus that is updated (A + dA > 0) carries exactly the rest.
C1_NucleonConservation ==
    [][\A c \in DOMAIN candidates :
        (last'.op = "performInteraction" /\ last'.who = c) =>
            LET pre == candidates[c]
                post == candidates'[c]
                n == DecodeChannel(last'.channel)
                added == Added(pre, post)
            IN  /\ (pre.id.A + DeltaA(n)) + MassOf(added) = pre.id.A
                /\ (pre.id.Z + DeltaZ(n)) + ChargeOf(added) = pre.id.Z
                /\ pre.id.A + DeltaA(n) > 0 =>
                       /\ post.id.A + MassOf(added) = pre.id.A
                       /\ post.id.Z + ChargeOf(added) = pre.id.Z]_vars

\* carbon-12 has emitted a neutron, a proton, a helium-3 and a helium-4
C1_Witness ==
    /\ last.op = "performInteraction"
    /\ last.channel = 110011
    /\ candidates["c1"].id = getNucleusId(3, 1)
    /\ MassOf(candidates["c1"].secondaries) = 9
    /\ ChargeOf(candidates["c1"].secondaries) = 5

\* the nucleons a channel emits when its species are read at the six places
\* (neutron, proton, deuteron, triton, helium-3, helium-4)
EmittedMass(channel, places) ==
    digit(channel, places[1]) + digit(channel, places[2])
        + 2 * digit(channel, places[3]) + 3 * digit(channel, places[4])
        + 3 * digit(channel, places[5]) + 4 * digit(channel, places[6])

RECURSIVE ExpectedLossRate(_, _, _, _)
ExpectedLossRate(pdModes, lg, A, places) ==
    IF pdModes = << >> THEN Fin(0, 1)
    ELSE DAdd(DMul(interpolateEquidistant(lg, 6, 14, Head(pdModes).rate),
                   Fin(EmittedMass(Head(pdModes).channel, places), A)),
              ExpectedLossRate(Tail(pdModes), lg, A, places))

\* executing a stored interaction adds the species of the six places, and the
\* loss length is the reciprocal of the rates weighted by the nucleons read at
\* those places
DecodesAt(places) ==
    /\ \A c \in DOMAIN candidates :
        (last'.op = "performInteraction" /\ last'.who = c /\ Pending(candidates[c])) =>
            LET added == Added(candidates[c], candidates'[c])
                channel == last'.channel
            IN  /\ CountOf(added, 1, 0) = digit(channel, places[1])
                /\ CountOf(added, 1, 1) = digit(channel, places[2])
                /\ CountOf(added, 2, 1) = digit(channel, places[3])
                /\ CountOf(added, 3, 1) = digit(channel, places[4])
                /\ CountOf(added, 3, 2) = digit(channel, places[5])
                /\ CountOf(added, 4, 2) = digit(channel, places[6])
    /\ (/\ last'.op = "energyLossLength"
        /\ InVector(last'.id)
        /\ RecordsOf(last'.id) # << >>
        /\ lgOf(last'.id, last'.E, 0) > 6
        /\ lgOf(last'.id, last'.E, 0) < 14) =>
            last'.loss = DDiv(Fin(1, 1),
                ExpectedLossRate(RecordsOf(last'.id), lgOf(last'.id, last'.E, 0),
                                 last'.id.A, places))

\* C5 as stated: the units digit counts the neutrons and the hundred-thousands
\* digit the helium-4, in performInteraction and in energyLossLength.
C5_UnitsDigitNeutrons == [][DecodesAt(<<1, 10, 100, 1000, 10000, 100000>>)]_vars

\* C5 amended: the hundred-thousands digit counts the neutrons, then protons,
\* deuterons, tritons, helium-3, and the units digit the helium-4, in
\* performInteraction and in energyLossLength alike.
C5_UnitsDigitHelium4 == [][DecodesAt(<<100000, 10000, 1000, 100, 10, 1>>)]_vars

\* channel 100000 has been executed and has emitted one neutron
C5_Witness ==
    /\ last.op = "performInteraction"
    /\ last.channel = 100000
    /\ candidates["c1"].id = getNucleusId(11, 6)
    /\ CountOf(candidates["c1"].secondaries, 1, 0) = 1
    /\ Len(candidates["c1"].secondaries) = 1

\* C8: with A' = A + dA, performInteraction on A' > 0 sets the identity to
\* (A', Z + dZ) and the energy to (E / A) * A' and leaves the active flag; on
\* A' <= 0 it deactivates the candidate, leaves identity and energy, and adds
\* only the species the channel digits count, no remnant.
C8_UpdateOrDeactivate ==
    [][\A c \in DOMAIN candidates :
        (last'.op = "performInteraction" /\ last'.who = c) =>
            LET pre == candidates[c]
                post == candidates'[c]
                n == DecodeChannel(last'.channel)
                nA == pre.id.A + DeltaA(n)
                added == Added(pre, post)
            IN  /\ nA > 0 =>
                    /\ post.id = getNucleusId(nA, pre.id.Z + DeltaZ(n))
                    /\ post.E.m = DMul(DDiv(pre.E.m, Fin(pre.id.A, 1)), Fin(nA, 1))
                    /\ post.E.e = pre.E.e
                    /\ post.active = pre.active
                /\ nA <= 0 =>
                    /\ post.active = FALSE
                    /\ post.id = pre.id
                    /\ post.E = pre.E
                    /\ Len(added) = n.nNeutron + n.nProton + n.nH2 + n.nH3 + n.nHe3 + n.nHe4
                    /\ \A i \in 1..Len(added) :
                           added[i].id \in {getNucleusId(1, 0), getNucleusId(1, 1),
                                            getNucleusId(2, 1), getNucleusId(3, 1),
                                            getNucleusId(3, 2), getNucleusId(4, 2)}]_vars

\* carbon-12 has lost all twelve nucleons (A' = 0) and is inactive
C8_Witness ==
    /\ last.op = "performInteraction"
    /\ last.channel = 110111
    /\ ~candidates["c1"].active
    /\ candidates["c1"].id = getNucleusId(12, 6)
    /\ Len(candidates["c1"].secondaries) = 5

\* the last call was a successful setNextInteraction on a nuclide of the table
Selected ==
    /\ last.op = "setNextInteraction"
    /\ last.ret
    /\ InVector(candidates[last.who].id)

IsNumber(d) == d.k # "nan"
AtMost(x, y) == ~DGt(x, y)

\* C2 as stated, where every sampled distance is finite: the recorded channel
\* is that of the smallest distance, the first in the list among equal ones.
C2_FirstOfEqualKept ==
    Selected =>
        LET ds == last.dists
            pdModes == RecordsOf(candidates[last.who].id)
        IN  (\A i \in DOMAIN ds : ds[i].k = "fin") =>
                \A i \in DOMAIN ds :
                    (/\ \A j \in DOMAIN ds : AtMost(ds[i], ds[j])
                     /\ \A j \in DOMAIN ds : j < i => DGt(ds[j], ds[i]))
                        => last.channel = pdModes[i].channel

\* C2 amended: when no sampled distance is a NaN, the recorded channel is that
\* of the smallest distance not above the largest finite double, the LAST in
\* the list among equal ones; when every distance is above it, no channel
\* replaces the one the caller passed in.
C2_LastOfEqualKept ==
    Selected =>
        LET ds == last.dists
            pdModes == RecordsOf(candidates[last.who].id)
        IN  (\A i \in DOMAIN ds : IsNumber(ds[i])) =>
                /\ \A i \in DOMAIN ds :
                    (/\ AtMost(ds[i], DBL_MAX)
                     /\ \A j \in DOMAIN ds : AtMost(ds[i], ds[j])
                     /\ \A j \in DOMAIN ds : j > i => DGt(ds[j], ds[i]))
                        => last.channel = pdModes[i].channel
                /\ (\A i \in DOMAIN ds : DGt(ds[i], DBL_MAX))
                        => last.channel = last.channelIn

\* two channels of different codes have sampled the same finite distance
C2_Witness ==
    /\ Selected
    /\ Len(last.dists) = 2
    /\ last.dists[1].k = "fin"
    /\ last.dists[1] = last.dists[2]
    /\ RecordsOf(candidates[last.who].id)[1].channel
           # RecordsOf(candidates[last.who].id)[2].channel

\* C10: the channel a successful setNextInteraction records is the code of one
\* of the channel records of the nuclide.
C10_ChannelOfARecord ==
    Selected =>
        /\ last.channel \in Channels(RecordsOf(candidates[last.who].id))
        /\ candidates[last.who].states[getDescription].channel
               \in Channels(RecordsOf(candidates[last.who].id))

\* C6: setNextInteraction returns nothing and leaves the candidate as it was
\* when the nuclide has no record or lg <= 6 or lg >= 14; otherwise it returns
\* an interaction and stores it on the candidate.
C6_NoInteractionOutsideRange ==
    [][\A c \in DOMAIN candidates :
        (last'.op = "setNextInteraction" /\ last'.who = c /\ InVector(candidates[c].id)) =>
            LET pre == candidates[c]
                post == candidates'[c]
                lg == lgOf(pre.id, pre.E, pre.z)
            IN  IF RecordsOf(pre.id) = << >> \/ lg <= 6 \/ lg >= 14
                THEN ~last'.ret /\ post = pre
                ELSE /\ last'.ret
                     /\ Pending(post)
                     /\ post.states[getDescription].channel = last'.channel
                     /\ post = [pre EXCEPT !.states = post.states]]_vars

\* a nuclide with records was asked at lg = 14 exactly and nothing was returned
C6_Witness ==
    /\ last.op = "setNextInteraction"
    /\ ~last.ret
    /\ RecordsOf(candidates["c1"].id) # << >>
    /\ lgOf(candidates["c1"].id, candidates["c1"].E, candidates["c1"].z) = 14

\* C7: performInteraction leaves no pending photo-disintegration record on the
\* candidate, and a candidate without one gets one only from a successful
\* setNextInteraction on it.
C7_ConsumedOnce ==
    [][\A c \in DOMAIN candidates :
        /\ (last'.op = "performInteraction" /\ last'.who = c) => ~Pending(candidates'[c])
        /\ (~Pending(candidates[c]) /\ Pending(candidates'[c])) =>
               (last'.op = "setNextInteraction" /\ last'.who = c /\ last'.ret)]_vars

\* the stored proton channel was executed and the candidate holds no record
C7_Witness ==
    /\ last.op = "performInteraction"
    /\ last.channel = 10000
    /\ candidates["c1"].id = getNucleusId(3, 1)
    /\ ~Pending(candidates["c1"])

\* C9: a setNextInteraction that returns an interaction draws once per channel
\* record of the nuclide, one that returns nothing draws nothing, and no call
\* changes the rate table, whichever candidates the calls are for.
C9_DrawsAndTable ==
    [][/\ pdTable' = pdTable
       /\ \A c \in DOMAIN candidates :
            (last'.op = "setNextInteraction" /\ last'.who = c /\ InVector(candidates[c].id)) =>
                Len(last'.dists) = IF last'.ret THEN Len(RecordsOf(candidates[c].id)) ELSE 0]_vars

\* c2 drew twice for its two channels while c1 held a pending interaction of
\* the other channel
C9_Witness ==
    /\ last.op = "setNextInteraction"
    /\ last.who = "c2"
    /\ last.ret
    /\ Len(last.dists) = 2
    /\ Pending(candidates["c1"])
    /\ candidates["c1"].states[getDescription].channel # last.channel

\* the records of the data source whose line holds charge number Z and mass
\* number A, in file order
RECURSIVE RecordsLoadedFor(_, _, _)
RecordsLoadedFor(lines, Z, A) ==
    IF lines = << >> THEN << >>
    ELSE LET l == Head(lines)
             rest == RecordsLoadedFor(Tail(lines), Z, A)
         IN  IF l.first # "#" /\ l.fields[1] = Z /\ l.fields[2] = A
             THEN <<[channel |-> l.fields[3],
                     rate |-> [i \in 1..NSamples |-> l.fields[3 + i]]]>> \o rest
             ELSE rest

\* C3: the lookup of the nuclide of mass number A and charge Z (at N = A - Z)
\* finds exactly the records of the lines that hold Z and A, in file order.
C3_KeyedByMassNumber ==
    \A Z \in 0..30 : \A N \in 0..56 :
        pdTable[TableIndex(Z, N)] = RecordsLoadedFor(infile, Z, Z + N)

\* C4: a nuclide (Z, N) of the table's range for which the data source holds
\* no line, whether the line's second column is read as its mass number Z + N
\* or as its neutron number N, has an empty channel list.
C4_AbsentNuclideEmpty ==
    \A Z \in 0..30 : \A N \in 0..56 :
        (/\ RecordsLoadedFor(infile, Z, Z + N) = << >>
         /\ RecordsLoadedFor(infile, Z, N) = << >>)
            => pdTable[TableIndex(Z, N)] = << >>

====
